---- MODULE Spec2Model ----
(***************************************************************************)
(* A model of websocket_rooms.room.Room (src/websocket_rooms/room.py).     *)
(*                                                                         *)
(* The Room runs on one asyncio event loop.  A coroutine runs without      *)
(* interruption from one await of an external operation to the next, so    *)
(* every action below is one such uninterrupted segment of the code:       *)
(*   - websocket.accept(), websocket.receive(), websocket.close() and      *)
(*     websocket.send_<kind>() may suspend their caller;                   *)
(*   - asyncio.Queue.put on the unbounded queue and asyncio.Queue.get on a *)
(*     non-empty queue return without suspending;                          *)
(*   - the lifecycle hooks are the observers of src/test/test_rooms.py:    *)
(*     they record `websocket in room._websockets` and return or raise.    *)
(*     The room awaits what a hook returns, so a hook may be a coroutine   *)
(*     that awaits: the After-connect hook either returns at once or is    *)
(*     suspended before it looks at the registry.                          *)
(* The scheduler may resume the suspended coroutines in any order.  A      *)
(* websocket is the connection handle of the host framework, a             *)
(* starlette.websockets.WebSocket.  Its accept finds the connect message   *)
(* of the peer delivered, sets application_state to CONNECTED and sends    *)
(* the accept message, which returns or raises.  Its close sets            *)
(* application_state to DISCONNECTED and sends the close message, which    *)
(* returns.  Its send returns or raises WebSocketDisconnect, which it does *)
(* as well, with application_state set to DISCONNECTED, when the server    *)
(* raises OSError.  Called on a connection whose application_state is      *)
(* DISCONNECTED, send and close raise RuntimeError at once.                *)
(*                                                                         *)
(* Three specifications share the variables and the initial state.  Spec   *)
(* is the room with every operation the application has: connections join  *)
(* and leave, the After-connect hook may await, text frames arrive,        *)
(* messages are pushed by the application and by a receive handler for     *)
(* text frames, the publisher sends them, the application calls            *)
(* Room.remove for a connection and closes the room.  NumPeers websockets  *)
(* connect, and the websockets of Clients receive frames and have the hook *)
(* that awaits.                                                            *)
(* BroadcastSpec is the room as a broadcaster alone, with all NumConns     *)
(* websockets: connections join and leave, the After-connect hook may      *)
(* await, messages are pushed by the application, the publisher sends      *)
(* them and the room is closed; no frame arrives and the application does  *)
(* not call Room.remove.                                                   *)
(* DispatchSpec is the room as a receiver: handlers are registered for any *)
(* kind, the dispatch loops of the connections receive data frames and     *)
(* call the handlers, and handlers and hooks may raise; nothing is pushed, *)
(* and the application neither calls Room.remove nor closes the room.      *)
(***************************************************************************)
EXTENDS Integers, Sequences, FiniteSets, TLC

\* bounds of the model: the websockets, the pushes, the websockets that
\* connect where the application also calls Room.remove, and the calls of
\* Room.remove that the application makes
NumConns == 3
MaxPush == 2
NumPeers == 2
MaxRemove == 1
\* bounds of the model of the dispatch loop: the connections that take part
\* in it and the frames each of them receives
NumClients == 1
MaxFrames == 2

Conns == 1..NumConns
Clients == 1..NumClients
Peers == 1..NumPeers
NoConn == 0

\* class ReceiveType
Kinds == {"text", "bytes", "json"}

VARIABLES
    websockets,      \* Room._websockets: list of connections
    to_push,         \* Room._to_push: FIFO queue of message objects
    publisher_task,  \* Room._publisher_task: "None" or "Task"
    pub,             \* the frame of the running Room._publisher coroutine
    pc,              \* position of each Room.connect call
    closed,          \* websocket.close() was called on the connection
    application_state, \* websocket.application_state of each connection
    closer,          \* the frame of the Room.close call
    remover,         \* per connection, the frame of the Room.remove call of the application
    cut,             \* history: the send in flight that a cancellation of the publisher cut short
    nextId,          \* number of push calls made so far; a payload is its number
    lastPush,        \* history: the latest push call and the members sent its message
    maxSent,         \* history: the highest payload a send was started for
    hooks,           \* history: per connection, the lifecycle hook calls
    accepted,        \* history: connections appended to the registry by connect
    removed,         \* history: connections taken out by remove or dropped by the publisher
    on_receive,      \* Room._on_receive: the kinds a receive handler is registered for
    rx               \* per connection, the frame of its Room._run_client_lifecycle call

vars == <<websockets, to_push, publisher_task, pub, pc, closed, application_state, closer,
          remover, cut, nextId, lastPush, maxSent, hooks, accepted, removed, on_receive, rx>>

----------------------------------------------------------------------------
\* list helpers

Range(s) == {s[i] : i \in 1..Len(s)}

In(c, s) == c \in Range(s)

Front(s) == SubSeq(s, 1, Len(s) - 1)

Last(s) == s[Len(s)]

\* list.remove(x): drops the first occurrence of x
ListRemove(s, x) ==
    LET i == CHOOSE j \in 1..Len(s) : s[j] = x /\ \A k \in 1..(j - 1) : s[k] # x
    IN  SubSeq(s, 1, i - 1) \o SubSeq(s, i + 1, Len(s))

----------------------------------------------------------------------------
\* the publisher coroutine

NoMsg == [id |-> 0, kind |-> "none", orphan |-> FALSE, joined |-> {}, kept |-> FALSE,
          targets |-> {}]

PubIdle == [pc |-> "get", msg |-> NoMsg, ws |-> NoConn, living |-> <<>>]

PubNone == [pc |-> "none", msg |-> NoMsg, ws |-> NoConn, living |-> <<>>]

\* the publisher task that ended with an exception: its frame is lost;
\* history: the message and the connection of the send that raised
PubDead(c, msg) == [pc |-> "dead", msg |-> msg, ws |-> c, living |-> <<>>]

\* asyncio.Queue.get on a non-empty queue: the queue is FIFO
QueueGet(q) == [item |-> Head(q), rest |-> Tail(q)]

\* history: the item the publisher holds during a pass, tagged with the
\* connections that had joined the registry by the moment it was dequeued
Dequeued(item) == [item EXCEPT !.targets = accepted]

\* Room._publisher, lines 126-130: the connection c is popped and the send
\* of msg to it is called.  On a connection whose application_state is
\* DISCONNECTED the call raises RuntimeError before it suspends: the except
\* clause does not match, the exception ends the task, its frame is lost
\* and line 132 is not reached.  The handle Room._publisher_task keeps the
\* finished task.  Otherwise the task is suspended in the send.
SendCall(c, msg, living) ==
    IF application_state[c] = "DISCONNECTED"
    THEN PubDead(c, msg)
    ELSE [pc |-> "send", msg |-> msg, ws |-> c, living |-> living]

\* Room._publisher from `await self._to_push.get()` to its next suspension,
\* with registry ws and queue q.  A message dequeued while the registry is
\* empty is consumed by an empty pass and the loop goes on to the next one.
RECURSIVE PublisherFromGet(_, _)
PublisherFromGet(ws, q) ==
    IF q = <<>>
    THEN [websockets |-> ws, to_push |-> q, pub |-> PubIdle]
    ELSE IF Len(ws) > 0
         THEN [websockets |-> Front(ws),
               to_push |-> QueueGet(q).rest,
               pub |-> SendCall(Last(ws), Dequeued(QueueGet(q).item), <<>>)]
         ELSE PublisherFromGet(<<>>, QueueGet(q).rest)

\* Room._publisher from the loop test `while len(self._websockets) > 0`
\* after one send is over, to its next suspension.
PublisherFromLoop(ws, q, living, msg) ==
    IF Len(ws) > 0
    THEN [websockets |-> Front(ws), to_push |-> q,
          pub |-> SendCall(Last(ws), msg, living)]
    ELSE PublisherFromGet(living, q)

----------------------------------------------------------------------------
\* history helpers

HookCall(ev, phase, c, ws) == [ev |-> ev, phase |-> phase, member |-> In(c, ws)]

\* the registry as a set
Members == Range(websockets)

----------------------------------------------------------------------------
\* no send was cut short
NoCut == [id |-> 0, ws |-> NoConn]

\* Room.remove, lines 187-194: what follows the before hook and the close.
\* raised is the exception that leaves remove, "none" when it returns.
RemoveTail(c) ==
    IF ~In(c, websockets)
    THEN \* self._websockets.remove(websocket) raises ValueError
         [websockets |-> websockets, publisher_task |-> publisher_task, pub |-> pub,
          removed |-> removed, raised |-> "ValueError", after |-> <<>>, cut |-> cut]
    ELSE LET ws == ListRemove(websockets, c) IN
         IF ws # <<>>
         THEN [websockets |-> ws, publisher_task |-> publisher_task, pub |-> pub,
               removed |-> removed \cup {c}, raised |-> "none",
               after |-> <<HookCall("disconnect", "after", c, ws)>>, cut |-> cut]
         ELSE IF publisher_task = "None"
              THEN \* self._publisher_task.cancel() on None raises AttributeError
                   [websockets |-> ws, publisher_task |-> publisher_task, pub |-> pub,
                    removed |-> removed \cup {c}, raised |-> "AttributeError",
                    after |-> <<>>, cut |-> cut]
              ELSE \* the task is cancelled where it is suspended: its frame is lost
                   [websockets |-> ws, publisher_task |-> "None", pub |-> PubNone,
                    removed |-> removed \cup {c}, raised |-> "none",
                    after |-> <<HookCall("disconnect", "after", c, ws)>>,
                    cut |-> IF pub.pc = "send"
                            THEN [id |-> pub.msg.id, ws |-> pub.ws]
                            ELSE cut]

----------------------------------------------------------------------------
\* the dispatch loop of a connection before its first frame: n counts the
\* frames received, frame is the latest one, call the latest handler call
\* (the k-th call of the loop, made for frame number seq) and running tells
\* that the loop awaits the result of that call
NoFrame == [kind |-> "none", data |-> ""]

NoCall == [k |-> 0, seq |-> 0, func |-> "none", arg |-> [type |-> "none", repr |-> ""]]

RxStart == [n |-> 0, frame |-> NoFrame, call |-> NoCall, running |-> FALSE]

----------------------------------------------------------------------------
\* the dispatch loop, Room._run_client_lifecycle

\* payloads of inbound frames: the empty payload, a text that is not JSON,
\* and texts that are JSON, of an empty and of a non-empty list.  A bytes
\* payload is written as its text, b'\xff' as "0xff".
TextPayloads == {"", "hi", "[]", "[1]"}

\* payloads of Bytes frames: empty and JSON text
BytesPayloads == {"", "[1]"}

\* the messages websocket.receive() returns for data frames
Frames ==
    {[kind |-> "text", data |-> d] : d \in TextPayloads}
        \cup {[kind |-> "bytes", data |-> d] : d \in BytesPayloads}

\* message["text"] / message["bytes"]: the payload as a str or bytes object
Raw(f) == [type |-> IF f.kind = "text" THEN "str" ELSE "bytes", repr |-> f.data]

\* bytes.decode("utf-8"): the text, or UnicodeDecodeError (ok is FALSE)
Utf8Decode(d) ==
    IF d = "0xff"
    THEN [ok |-> FALSE, text |-> ""]
    ELSE [ok |-> TRUE, text |-> d]

\* json.loads: the decoded object, or JSONDecodeError (ok is FALSE)
JsonLoads(d) ==
    CASE d = "[]" -> [ok |-> TRUE, value |-> [type |-> "list", repr |-> "[]"]]
      [] d = "[1]" -> [ok |-> TRUE, value |-> [type |-> "list", repr |-> "[1]"]]
      [] OTHER -> [ok |-> FALSE, value |-> [type |-> "none", repr |-> ""]]

\* the truth value of an object: '', b'' and [] are false
Truthy(v) == ~(v.repr = "" \/ (v.type = "list" /\ v.repr = "[]"))

\* the enum member ReceiveType.JSON, which line 159 looks up among the keys
\* of Room._on_receive; the keys are the strings of Kinds
EnumJson == "ReceiveType.JSON"

\* Room._run_client_lifecycle, lines 152-168: the handler and its argument
\* for frame f with handlers registered for keys; raised tells that
\* json.loads raised
Resolve(f, keys) ==
    IF f.kind = "bytes"
    THEN IF "bytes" \in keys
         THEN [func |-> "bytes", text |-> Raw(f), raised |-> FALSE]
         ELSE IF EnumJson \in keys
         THEN [func |-> "json", text |-> JsonLoads(Utf8Decode(f.data).text).value,
               raised |-> ~Utf8Decode(f.data).ok \/ ~JsonLoads(Utf8Decode(f.data).text).ok]
         ELSE [func |-> "none", text |-> Raw(f), raised |-> FALSE]
    ELSE IF "text" \in keys
         THEN [func |-> "text", text |-> Raw(f), raised |-> FALSE]
         ELSE IF "json" \in keys
         THEN [func |-> "json", text |-> JsonLoads(f.data).value,
               raised |-> ~JsonLoads(f.data).ok]
         ELSE [func |-> "none", text |-> Raw(f), raised |-> FALSE]

\* Room._run_client_lifecycle, line 170
Invoked(r) == ~r.raised /\ r.func # "none" /\ Truthy(r.text)

\* what a call of a receive handler does: it returns, it returns an
\* awaitable that suspends the loop, or it raises
HandlerOutcomes == {"returns", "awaits", "raises"}

----------------------------------------------------------------------------
\* Room.__init__, with no connection yet
RoomInit ==
    /\ websockets = <<>>
    /\ to_push = <<>>
    /\ publisher_task = "None"
    /\ pub = PubNone
    /\ pc = [c \in Conns |-> "init"]
    /\ closed = [c \in Conns |-> FALSE]
    /\ application_state = [c \in Conns |-> "CONNECTING"]
    /\ closer = [pc |-> "idle", snap |-> <<>>, all |-> {}]
    /\ remover = [c \in Conns |-> "idle"]
    /\ cut = NoCut
    /\ nextId = 0
    /\ lastPush = [id |-> 0, members |-> {}, sent |-> {}]
    /\ maxSent = 0
    /\ hooks = [c \in Conns |-> <<>>]
    /\ accepted = {}
    /\ removed = {}
    /\ on_receive = {}
    /\ rx = [c \in Conns |-> RxStart]

Init == RoomInit

\* the arguments the application passes to the decorator Room.on_receive:
\* the three kinds and a string that is none of them
Modes == Kinds \cup {"binary"}

\* Room.on_receive(mode)(func), lines 225-232: the handler is stored under
\* the key mode and replaces the one stored there; a mode that is not a kind
\* raises RuntimeError to the caller and stores nothing
OnReceive(mode) ==
    /\ on_receive' = IF mode \in Kinds THEN on_receive \cup {mode} ELSE on_receive
    /\ UNCHANGED <<websockets, to_push, publisher_task, pub, pc, closed, application_state, closer,
                   nextId, lastPush, maxSent, hooks, accepted, removed, rx>>
    /\ UNCHANGED <<remover, cut>>

\* history: the queue a publisher finds when it is started, its items marked
\* as kept over the stop of the previous publisher
KeptOverStop(q) == [i \in 1..Len(q) |-> [q[i] EXCEPT !.kept = TRUE]]

\* Room._run_client_lifecycle, lines 144-147: the test at the top of the
\* loop.  The application_state of an accepted connection is CONNECTED
\* until close() is called on it or a send to it fails with OSError; then
\* the loop raises RuntimeError, which leaves connect without a call of
\* remove.
LoopTop(c) == IF application_state[c] # "CONNECTED" THEN "RuntimeError" ELSE "receive"

\* Room.connect, lines 60-65: up to the suspension in websocket.accept().
\* accept takes the connect message of the peer, sets application_state to
\* CONNECTED and is suspended in the send of its accept message.
Connect(c) ==
    /\ pc[c] = "init"
    /\ IF publisher_task = "None"
       THEN /\ publisher_task' = "Task"
            /\ pub' = PubIdle
            /\ to_push' = KeptOverStop(to_push)
       ELSE UNCHANGED <<publisher_task, pub, to_push>>
    /\ hooks' = [hooks EXCEPT ![c] = Append(@, HookCall("connect", "before", c, websockets))]
    /\ application_state' = [application_state EXCEPT ![c] = "CONNECTED"]
    /\ pc' = [pc EXCEPT ![c] = "accept"]
    /\ UNCHANGED <<websockets, closed, closer, nextId, lastPush,
                   maxSent, accepted, removed>>
    /\ UNCHANGED <<on_receive, rx>>
    /\ UNCHANGED <<remover, cut>>

\* Room.connect, line 66
RegistryAdd(ws, c) == Append(ws, c)

\* Room.connect, lines 65-70 and Room._run_client_lifecycle up to its first
\* `await websocket.receive()`: accept returned, and the After-connect hook
\* looks at the registry and returns without suspending
AcceptDone(c) ==
    /\ pc[c] = "accept"
    /\ websockets' = RegistryAdd(websockets, c)
    /\ hooks' = [hooks EXCEPT ![c] = Append(@, HookCall("connect", "after", c, websockets'))]
    /\ accepted' = accepted \cup {c}
    /\ pc' = [pc EXCEPT ![c] = "receive"]
    /\ UNCHANGED <<to_push, publisher_task, pub, closed, application_state, closer, nextId,
                   lastPush, maxSent, removed>>
    /\ UNCHANGED <<on_receive, rx>>
    /\ UNCHANGED <<remover, cut>>

\* Room.connect, lines 65-69: accept returned and the After-connect hook,
\* called at once after the append, is a coroutine that awaits before it
\* looks at the registry: connect is suspended in it (line 69), with the
\* connection in the registry.  A hook that looks first and awaits then
\* observes what the hook of AcceptDone observes.
AfterConnectAwaits(c) ==
    /\ pc[c] = "accept"
    /\ websockets' = RegistryAdd(websockets, c)
    /\ accepted' = accepted \cup {c}
    /\ pc' = [pc EXCEPT ![c] = "after"]
    /\ UNCHANGED <<to_push, publisher_task, pub, closed, application_state, closer, nextId,
                   lastPush, maxSent, hooks, removed>>
    /\ UNCHANGED <<on_receive, rx>>
    /\ UNCHANGED <<remover, cut>>

\* Room.connect, lines 69-70 and Room._run_client_lifecycle, lines 143-148:
\* the After-connect hook is resumed, looks at the registry and returns; the
\* dispatch loop starts with its test of line 144
AfterConnectReturn(c) ==
    /\ pc[c] = "after"
    /\ hooks' = [hooks EXCEPT ![c] = Append(@, HookCall("connect", "after", c, websockets))]
    /\ pc' = [pc EXCEPT ![c] = LoopTop(c)]
    /\ UNCHANGED <<websockets, to_push, publisher_task, pub, closed, application_state, closer,
                   nextId, lastPush, maxSent, accepted, removed>>
    /\ UNCHANGED <<on_receive, rx>>
    /\ UNCHANGED <<remover, cut>>

\* Room.connect, line 65: websocket.accept() raises and the error leaves connect
AcceptFail(c) ==
    /\ pc[c] = "accept"
    /\ pc' = [pc EXCEPT ![c] = "failed"]
    /\ UNCHANGED <<websockets, to_push, publisher_task, pub, closed, application_state, closer,
                   nextId, lastPush, maxSent, hooks, accepted, removed>>
    /\ UNCHANGED <<on_receive, rx>>
    /\ UNCHANGED <<remover, cut>>

\* Room._run_client_lifecycle, lines 171-173: func_res is not awaited
LoopAtReceiveNoAwait(c) == pc[c] = "receive"

\* Room._run_client_lifecycle, lines 148 and 171-173: the loop of c is
\* suspended in `await websocket.receive()`; while it awaits the result of
\* an asynchronous handler it is not
LoopAtReceive(c) == pc[c] = "receive" /\ ~rx[c].running

\* Room._run_client_lifecycle, lines 148-150 and 175-176, with Room.remove
\* (closed=True): the peer has gone away, or answers the close of Room.close,
\* and receive returns the disconnect message
DispatchDisconnect(c) ==
    /\ LoopAtReceive(c)
    /\ LET r == RemoveTail(c) IN
       /\ websockets' = r.websockets
       /\ publisher_task' = r.publisher_task
       /\ pub' = r.pub
       /\ removed' = r.removed
       /\ hooks' = [hooks EXCEPT ![c] =
                       (@ \o <<HookCall("disconnect", "before", c, websockets)>>) \o r.after]
       /\ pc' = [pc EXCEPT ![c] = IF r.raised = "none" THEN "done" ELSE r.raised]
    /\ UNCHANGED <<to_push, closed, application_state, closer, nextId, lastPush, maxSent, accepted>>
    /\ UNCHANGED <<on_receive, rx>>
    /\ cut' = RemoveTail(c).cut
    /\ UNCHANGED remover

\* the tuple (message, kind) of push_text / push_bytes / push_json with its
\* history: orphan tells that the registry was empty at the call, and joined
\* is, for an orphan, the set of connections accepted so far at the call;
\* kept is set on the items a newly started publisher finds in the queue and
\* targets is filled in when the publisher dequeues the item
MessageObject(id, k) ==
    [id |-> id, kind |-> k,
     orphan |-> (Members = {}),
     joined |-> IF Members = {} THEN accepted ELSE {},
     kept |-> FALSE,
     targets |-> {}]

\* Room._push, lines 81-82
PushCall(k) ==
    /\ nextId < MaxPush
    /\ nextId' = nextId + 1
    /\ to_push' = IF publisher_task # "None"
                  THEN Append(to_push, MessageObject(nextId', k))
                  ELSE to_push
    /\ lastPush' = [id |-> nextId', members |-> Members, sent |-> {}]

\* The kind of a message only selects the send_<kind> method of line 128, so
\* the pushes are not enumerated over all kinds: the i-th push of a run is
\* push_text, push_bytes, push_json in rotation.
KindOf(i) ==
    CASE i % 3 = 1 -> "text"
      [] i % 3 = 2 -> "bytes"
      [] OTHER -> "json"

\* Room.push_text / push_bytes / push_json called by a task of the application
Push ==
    /\ PushCall(KindOf(nextId + 1))
    /\ UNCHANGED <<websockets, publisher_task, pub, pc, closed, application_state, closer,
                   maxSent, hooks, accepted, removed, on_receive, rx>>
    /\ UNCHANGED <<remover, cut>>

\* the broadcast model follows test_broadcast: the application registers a
\* handler with the default mode of Room.on_receive, and the clients send
\* text frames
PushModes == {"text"}

PushFrames == {[kind |-> "text", data |-> "hi"]}

\* Room._run_client_lifecycle, lines 144-173: receive() returns data frame f
\* on c, a handler is found for it and called, and the handler broadcasts
\* with `await room.push_<kind>(message)`, as the handlers of test_broadcast
\* and test_types_broadcast do; like the pushes of the application, the
\* pushes of the handler take the kinds in rotation.  The put of the push
\* does not suspend, so the awaited handler returns in the same segment and
\* the loop goes on to its test of line 144.
HandlerPush(c, f) ==
    /\ LoopAtReceive(c)
    /\ rx[c].n < MaxFrames
    /\ Invoked(Resolve(f, on_receive))
    /\ PushCall(KindOf(nextId + 1))
    /\ rx' = [rx EXCEPT ![c] =
                 [n |-> @.n + 1,
                  frame |-> f,
                  call |-> [k |-> @.call.k + 1, seq |-> @.n + 1,
                            func |-> Resolve(f, on_receive).func,
                            arg |-> Resolve(f, on_receive).text],
                  running |-> FALSE]]
    /\ pc' = [pc EXCEPT ![c] = LoopTop(c)]
    /\ UNCHANGED <<websockets, publisher_task, pub, closed, application_state, closer,
                   maxSent, hooks, accepted, removed, on_receive>>
    /\ UNCHANGED <<remover, cut>>

----------------------------------------------------------------------------
\* the publisher task

PublisherApply(r) ==
    /\ websockets' = r.websockets
    /\ to_push' = r.to_push
    /\ pub' = r.pub
    /\ maxSent' = IF r.pub.pc = "send" /\ r.pub.msg.id > maxSent
                  THEN r.pub.msg.id
                  ELSE maxSent

\* Room._publisher, line 123: the task is resumed with an item in the queue
\* and runs to its next suspension
PublisherGet ==
    /\ publisher_task = "Task"
    /\ pub.pc = "get"
    /\ to_push # <<>>
    /\ PublisherApply(PublisherFromGet(websockets, to_push))
    /\ UNCHANGED <<publisher_task, pc, closed, application_state, closer, nextId, lastPush, hooks,
                   accepted, removed>>
    /\ UNCHANGED <<on_receive, rx>>
    /\ UNCHANGED <<remover, cut>>

\* Room._publisher, lines 128 and 131: the send in flight returns
PublisherSendDone ==
    /\ publisher_task = "Task"
    /\ pub.pc = "send"
    /\ lastPush' = IF pub.msg.id = lastPush.id
                   THEN [lastPush EXCEPT !.sent = @ \cup {pub.ws}]
                   ELSE lastPush
    /\ PublisherApply(PublisherFromLoop(websockets, to_push,
                                        Append(pub.living, pub.ws), pub.msg))
    /\ UNCHANGED <<publisher_task, pc, closed, application_state, closer, nextId, hooks, accepted,
                   removed>>
    /\ UNCHANGED <<on_receive, rx>>
    /\ UNCHANGED <<remover, cut>>

\* Room._publisher, lines 128-130: the peer is gone and the send in flight
\* raises WebSocketDisconnect; the publisher can learn this before the
\* dispatch loop of the connection does.  The server either raises
\* WebSocketDisconnect itself, or it raises OSError (oserror), which the
\* websocket turns into WebSocketDisconnect after it has set its
\* application_state to DISCONNECTED.
PublisherSendFail(oserror) ==
    /\ publisher_task = "Task"
    /\ pub.pc = "send"
    /\ removed' = removed \cup {pub.ws}
    /\ application_state' = IF oserror
                            THEN [application_state EXCEPT ![pub.ws] = "DISCONNECTED"]
                            ELSE application_state
    /\ PublisherApply(PublisherFromLoop(websockets, to_push, pub.living, pub.msg))
    /\ UNCHANGED <<publisher_task, pc, closed, closer, nextId, lastPush, hooks,
                   accepted>>
    /\ UNCHANGED <<on_receive, rx>>
    /\ UNCHANGED <<remover, cut>>

----------------------------------------------------------------------------
\* Room.close

\* Room.remove, line 186: websocket.close() on c.  On a connection whose
\* application_state is DISCONNECTED it raises RuntimeError, which leaves
\* remove and Room.close; on any other it sets the state to DISCONNECTED
\* and suspends.
CloseCall(c) == IF application_state[c] = "DISCONNECTED" THEN "RuntimeError" ELSE "closing"

ClosedBy(c) ==
    IF application_state[c] = "DISCONNECTED" THEN closed ELSE [closed EXCEPT ![c] = TRUE]

StateBy(c) == [application_state EXCEPT ![c] = "DISCONNECTED"]

\* Room.close, lines 200-202 with Room.remove, lines 182-186 for the first
\* member of the copy: up to the suspension in websocket.close()
CloseStart ==
    /\ closer.pc = "idle"
    /\ IF websockets = <<>>
       THEN /\ closer' = [pc |-> "done", snap |-> <<>>, all |-> {}]
            /\ UNCHANGED <<hooks, closed, application_state>>
       ELSE /\ closer' = [pc |-> CloseCall(Head(websockets)), snap |-> websockets,
                          all |-> Members]
            /\ hooks' = [hooks EXCEPT ![Head(websockets)] =
                            Append(@, HookCall("disconnect", "before",
                                               Head(websockets), websockets))]
            /\ closed' = ClosedBy(Head(websockets))
            /\ application_state' = StateBy(Head(websockets))
    /\ UNCHANGED <<websockets, to_push, publisher_task, pub, pc, nextId,
                   lastPush, maxSent, accepted, removed>>
    /\ UNCHANGED <<on_receive, rx>>
    /\ UNCHANGED <<remover, cut>>

\* Room.remove, lines 187-194 for the member being closed, then the next turn
\* of the loop of Room.close up to the suspension in the next websocket.close()
CloseResume ==
    /\ closer.pc = "closing"
    /\ LET c == Head(closer.snap)
           rest == Tail(closer.snap)
           r == RemoveTail(c)
       IN
       /\ websockets' = r.websockets
       /\ publisher_task' = r.publisher_task
       /\ pub' = r.pub
       /\ removed' = r.removed
       /\ IF r.raised # "none"
          THEN /\ closer' = [closer EXCEPT !.pc = r.raised]
               /\ hooks' = hooks
               /\ UNCHANGED <<closed, application_state>>
          ELSE IF rest = <<>>
          THEN /\ closer' = [closer EXCEPT !.pc = "done", !.snap = rest]
               /\ hooks' = [hooks EXCEPT ![c] = @ \o r.after]
               /\ UNCHANGED <<closed, application_state>>
          ELSE /\ closer' = [closer EXCEPT !.pc = CloseCall(Head(rest)), !.snap = rest]
               /\ hooks' = [hooks EXCEPT
                              ![c] = @ \o r.after,
                              ![Head(rest)] =
                                  Append(@, HookCall("disconnect", "before",
                                                     Head(rest), r.websockets))]
               /\ closed' = ClosedBy(Head(rest))
               /\ application_state' = StateBy(Head(rest))
    /\ UNCHANGED <<to_push, pc, nextId, lastPush, maxSent, accepted>>
    /\ UNCHANGED <<on_receive, rx>>
    /\ cut' = RemoveTail(Head(closer.snap)).cut
    /\ UNCHANGED remover

----------------------------------------------------------------------------
\* Room.remove called by the application

\* Room.remove(websocket, closed), lines 182-194, called by a task of the
\* application for a connection that connect has accepted and whose connect
\* call is still running, be it popped by the publisher or not.  With
\* closed=True it runs to its end; with the default it calls
\* websocket.close() and is suspended there, or leaves with the
\* RuntimeError of a close on a disconnected websocket.
RemoveStart(c, isclosed) ==
    /\ c \in accepted
    /\ pc[c] \in {"after", "receive"}
    /\ remover[c] = "idle"
    /\ Cardinality({d \in Conns : remover[d] # "idle"}) < MaxRemove
    /\ LET before == HookCall("disconnect", "before", c, websockets)
           r == RemoveTail(c)
       IN
       IF isclosed
       THEN /\ websockets' = r.websockets
            /\ publisher_task' = r.publisher_task
            /\ pub' = r.pub
            /\ removed' = r.removed
            /\ cut' = r.cut
            /\ hooks' = [hooks EXCEPT ![c] = (@ \o <<before>>) \o r.after]
            /\ remover' = [remover EXCEPT ![c] = IF r.raised = "none" THEN "done" ELSE r.raised]
            /\ UNCHANGED <<closed, application_state>>
       ELSE /\ hooks' = [hooks EXCEPT ![c] = Append(@, before)]
            /\ remover' = [remover EXCEPT ![c] = CloseCall(c)]
            /\ closed' = ClosedBy(c)
            /\ application_state' = StateBy(c)
            /\ UNCHANGED <<websockets, publisher_task, pub, removed, cut>>
    /\ UNCHANGED <<to_push, pc, closer, nextId, lastPush, maxSent, accepted>>
    /\ UNCHANGED <<on_receive, rx>>

\* Room.remove, lines 187-194: websocket.close() returned
RemoveResume(c) ==
    /\ remover[c] = "closing"
    /\ LET r == RemoveTail(c) IN
       /\ websockets' = r.websockets
       /\ publisher_task' = r.publisher_task
       /\ pub' = r.pub
       /\ removed' = r.removed
       /\ cut' = r.cut
       /\ hooks' = [hooks EXCEPT ![c] = @ \o r.after]
       /\ remover' = [remover EXCEPT ![c] = IF r.raised = "none" THEN "done" ELSE r.raised]
    /\ UNCHANGED <<to_push, pc, closed, application_state, closer, nextId, lastPush,
                   maxSent, accepted>>
    /\ UNCHANGED <<on_receive, rx>>

----------------------------------------------------------------------------
\* the dispatch loop at work

\* Room._run_client_lifecycle, lines 148-173: receive() returns data frame f
\* and the loop runs to its next suspension or to the exception that leaves
\* it.  Only WebSocketDisconnect is caught (line 175): the error of
\* json.loads and the error of a handler leave connect.
ReceiveFrame(c, f, outcome) ==
    /\ LoopAtReceive(c)
    /\ rx[c].n < MaxFrames
    /\ LET r == Resolve(f, on_receive)
           n == rx[c].n + 1
       IN
       /\ rx' = [rx EXCEPT ![c] =
                    [n |-> n,
                     frame |-> f,
                     call |-> IF Invoked(r)
                              THEN [k |-> @.call.k + 1, seq |-> n,
                                    func |-> r.func, arg |-> r.text]
                              ELSE @.call,
                     running |-> IF Invoked(r) THEN outcome = "awaits" ELSE @.running]]
       /\ pc' = [pc EXCEPT ![c] =
                    IF r.raised THEN "JSONDecodeError"
                    ELSE IF Invoked(r) /\ outcome = "raises" THEN "HandlerError"
                    ELSE IF Invoked(r) /\ outcome = "awaits" THEN @
                    ELSE LoopTop(c)]
    /\ UNCHANGED <<websockets, to_push, publisher_task, pub, closed, application_state, closer,
                   nextId, lastPush, maxSent, hooks, accepted, removed, on_receive>>
    /\ UNCHANGED <<remover, cut>>

\* Room._run_client_lifecycle, line 173: the awaited handler returns
HandlerReturn(c) ==
    /\ pc[c] = "receive"
    /\ rx[c].running
    /\ rx' = [rx EXCEPT ![c].running = FALSE]
    /\ pc' = [pc EXCEPT ![c] = LoopTop(c)]
    /\ UNCHANGED <<websockets, to_push, publisher_task, pub, closed, application_state, closer,
                   nextId, lastPush, maxSent, hooks, accepted, removed, on_receive>>
    /\ UNCHANGED <<remover, cut>>

\* Room._run_client_lifecycle, line 173: the awaited handler raises
HandlerRaise(c) ==
    /\ pc[c] = "receive"
    /\ rx[c].running
    /\ rx' = [rx EXCEPT ![c].running = FALSE]
    /\ pc' = [pc EXCEPT ![c] = "HandlerError"]
    /\ UNCHANGED <<websockets, to_push, publisher_task, pub, closed, application_state, closer,
                   nextId, lastPush, maxSent, hooks, accepted, removed, on_receive>>
    /\ UNCHANGED <<remover, cut>>

----------------------------------------------------------------------------
Next ==
    \/ \E c \in Peers : Connect(c)
    \/ \E c \in Peers : AcceptDone(c)
    \/ \E c \in Clients : AfterConnectAwaits(c)
    \/ \E c \in Clients : AfterConnectReturn(c)
    \/ \E c \in Peers : AcceptFail(c)
    \/ \E c \in Peers : DispatchDisconnect(c)
    \/ Push
    \/ \E c \in Clients : \E f \in PushFrames : HandlerPush(c, f)
    \/ \E mode \in PushModes : OnReceive(mode)
    \/ \E c \in Clients : \E f \in PushFrames : \E o \in HandlerOutcomes : ReceiveFrame(c, f, o)
    \/ \E c \in Clients : HandlerReturn(c)
    \/ \E c \in Clients : HandlerRaise(c)
    \/ PublisherGet
    \/ PublisherSendDone
    \/ \E oserror \in BOOLEAN : PublisherSendFail(oserror)
    \/ CloseStart
    \/ CloseResume
    \/ \E c \in Peers : \E isclosed \in BOOLEAN : RemoveStart(c, isclosed)
    \/ \E c \in Peers : RemoveResume(c)

Spec == Init /\ [][Next]_vars

\* the room as a broadcaster, with all its websockets: no data frame arrives
\* and the application does not call Room.remove
BroadcastNext ==
    \/ \E c \in Conns : Connect(c)
    \/ \E c \in Conns : AcceptDone(c)
    \/ \E c \in Clients : AfterConnectAwaits(c)
    \/ \E c \in Clients : AfterConnectReturn(c)
    \/ \E c \in Conns : AcceptFail(c)
    \/ \E c \in Conns : DispatchDisconnect(c)
    \/ Push
    \/ PublisherGet
    \/ PublisherSendDone
    \/ \E oserror \in BOOLEAN : PublisherSendFail(oserror)
    \/ CloseStart
    \/ CloseResume

BroadcastSpec == Init /\ [][BroadcastNext]_vars

TypeOK ==
    /\ Range(websockets) \subseteq Conns
    /\ publisher_task \in {"None", "Task"}
    /\ (publisher_task = "None") = (pub.pc = "none")
    /\ nextId \in 0..MaxPush
    /\ \A i \in 1..Len(to_push) : to_push[i].kind \in Kinds
    /\ on_receive \subseteq Kinds
    /\ \A c \in Conns : application_state[c] \in {"CONNECTING", "CONNECTED", "DISCONNECTED"}
    /\ \A c \in Conns : remover[c] \in {"idle", "closing", "done", "ValueError",
                                         "AttributeError", "RuntimeError"}
    /\ cut.id \in 0..MaxPush /\ cut.ws \in Conns \cup {NoConn}
    /\ \A c \in Conns : rx[c].n \in 0..MaxFrames /\ rx[c].call.k <= rx[c].n

----------------------------------------------------------------------------
\* lifecycle hooks that raise: no call of a hook is inside a try, so the
\* error leaves connect at the call

\* Room.connect, lines 60-64: the Before-connect hook raises
BeforeConnectRaises(c) ==
    /\ pc[c] = "init"
    /\ IF publisher_task = "None"
       THEN /\ publisher_task' = "Task"
            /\ pub' = PubIdle
            /\ to_push' = KeptOverStop(to_push)
       ELSE UNCHANGED <<publisher_task, pub, to_push>>
    /\ hooks' = [hooks EXCEPT ![c] = Append(@, HookCall("connect", "before", c, websockets))]
    /\ pc' = [pc EXCEPT ![c] = "HookError"]
    /\ UNCHANGED <<websockets, closed, application_state, closer, nextId, lastPush, maxSent,
                   accepted, removed, on_receive, rx>>
    /\ UNCHANGED <<remover, cut>>

\* Room.connect, lines 65-69: accept returned and the After-connect hook raises
AfterConnectRaises(c) ==
    /\ pc[c] = "accept"
    /\ websockets' = RegistryAdd(websockets, c)
    /\ hooks' = [hooks EXCEPT ![c] = Append(@, HookCall("connect", "after", c, websockets'))]
    /\ accepted' = accepted \cup {c}
    /\ pc' = [pc EXCEPT ![c] = "HookError"]
    /\ UNCHANGED <<to_push, publisher_task, pub, closed, application_state, closer, nextId,
                   lastPush, maxSent, removed, on_receive, rx>>
    /\ UNCHANGED <<remover, cut>>

\* Room._run_client_lifecycle, lines 148-150 and 175-176, with Room.remove,
\* lines 182-184: the peer disconnects and the Before-disconnect hook raises
BeforeDisconnectRaises(c) ==
    /\ LoopAtReceive(c)
    /\ hooks' = [hooks EXCEPT ![c] = Append(@, HookCall("disconnect", "before", c, websockets))]
    /\ pc' = [pc EXCEPT ![c] = "HookError"]
    /\ UNCHANGED <<websockets, to_push, publisher_task, pub, closed, application_state, closer,
                   nextId, lastPush, maxSent, accepted, removed, on_receive, rx>>
    /\ UNCHANGED <<remover, cut>>

\* Room._run_client_lifecycle, lines 148-150 and 175-176, with Room.remove,
\* lines 182-194: the peer disconnects and the After-disconnect hook raises
AfterDisconnectRaises(c) ==
    /\ LoopAtReceive(c)
    /\ LET r == RemoveTail(c) IN
       /\ r.raised = "none"
       /\ websockets' = r.websockets
       /\ publisher_task' = r.publisher_task
       /\ pub' = r.pub
       /\ removed' = r.removed
       /\ hooks' = [hooks EXCEPT ![c] =
                       (@ \o <<HookCall("disconnect", "before", c, websockets)>>) \o r.after]
       /\ pc' = [pc EXCEPT ![c] = "HookError"]
    /\ UNCHANGED <<to_push, closed, application_state, closer, nextId, lastPush, maxSent, accepted,
                   on_receive, rx>>
    /\ cut' = RemoveTail(c).cut
    /\ UNCHANGED remover

----------------------------------------------------------------------------
\* the dispatch loops of the connections of Clients
DispatchNext ==
    \/ \E mode \in Modes : OnReceive(mode)
    \/ \E c \in Clients : Connect(c)
    \/ \E c \in Clients : AcceptDone(c)
    \/ \E c \in Clients : \E f \in Frames : \E o \in HandlerOutcomes : ReceiveFrame(c, f, o)
    \/ \E c \in Clients : HandlerReturn(c)
    \/ \E c \in Clients : HandlerRaise(c)
    \/ \E c \in Clients : DispatchDisconnect(c)
    \/ \E c \in Clients : BeforeConnectRaises(c)
    \/ \E c \in Clients : AfterConnectRaises(c)
    \/ \E c \in Clients : BeforeDisconnectRaises(c)
    \/ \E c \in Clients : AfterDisconnectRaises(c)

DispatchSpec == Init /\ [][DispatchNext]_vars

----------------------------------------------------------------------------
\* Properties

\* every hook call recorded for c
HookCalls(c) == {hooks[c][i] : i \in 1..Len(hooks[c])}

\* the connect calls that went through remove: it returned or raised
TornDown == {"done", "ValueError", "AttributeError"}

\* C1: in every reachable state the publisher task handle is present if and
\* only if the member registry is non-empty.
C1_PublisherIffMembers ==
    (publisher_task # "None") <=> (websockets # <<>>)

\* C2: in every reachable state a connection is in the registry if and only
\* if connect has accepted it and it was not removed since, by remove or by
\* the publisher after a failed send.
C2_MemberIffAcceptedNotRemoved ==
    \A c \in Conns : In(c, websockets) <=> (c \in accepted /\ c \notin removed)

\* C3: a push made while at least one connection is in the registry appends
\* its message object to the outbox.
C3_PushWithMembersEnqueues ==
    [][(nextId' # nextId /\ websockets # <<>>)
          => to_push' = Append(to_push, MessageObject(nextId', KindOf(nextId')))]_vars

\* the members registered at the latest push are all still connected
TargetsStayConnected ==
    \A c \in lastPush.members : pc[c] = "receive" /\ ~closed[c] /\ c \notin removed

\* nothing is queued and no send is in flight: no further send can start
\* unless another push is made
PublisherQuiet == to_push = <<>> /\ pub.pc # "send"

\* C4: a message pushed while a set of members is registered, all of which
\* stay connected, is sent to every one of them: once the publisher has
\* nothing left to send, they all have been sent it.
C4_PushedMessageReachesMembers ==
    (lastPush.id > 0 /\ lastPush.members # {} /\ TargetsStayConnected /\ PublisherQuiet)
        => lastPush.members \subseteq lastPush.sent

\* C5: messages are broadcast in push order: the outbox holds them in push
\* order, the message whose send is in flight was pushed before every queued
\* one, no send of a message is in flight once a send of a message pushed
\* after it has been started, and the publisher has finished sending a
\* message to its targets before it sends a later one: no send of a message
\* is in flight while the send of an earlier message to a connection that is
\* still connected was cut short.
C5_BroadcastInPushOrder ==
    /\ \A i, j \in 1..Len(to_push) : i < j => to_push[i].id < to_push[j].id
    /\ pub.pc = "send" =>
          /\ \A i \in 1..Len(to_push) : pub.msg.id < to_push[i].id
          /\ pub.msg.id >= maxSent
          /\ (cut.id # 0 /\ cut.id < pub.msg.id) =>
                ~(pc[cut.ws] = "receive" /\ ~closed[cut.ws] /\ cut.ws \notin removed)

\* C6: the Before-connect hook of a connection runs while the connection is
\* not in the registry, and its After-connect hook while it is.
C6_ConnectHooksSeeMembership ==
    \A c \in Conns : \A h \in HookCalls(c) :
        h.ev = "connect" => (h.member <=> h.phase = "after")

\* C7: the Before-disconnect hook of a connection runs while the connection
\* is still in the registry, and its After-disconnect hook while it no longer
\* is.
C7_DisconnectHooksSeeMembership ==
    \A c \in Conns : \A h \in HookCalls(c) :
        h.ev = "disconnect" => (h.member <=> h.phase = "before")

\* C8: a call of close on a room with M >= 0 members, no connection being in
\* its handshake, ends by returning, and it leaves the registry empty, the
\* publisher stopped and every one of the M members closed, also when a
\* broadcast or a peer disconnect is interleaved with it.
C8_CloseEmptiesRoom ==
    [][(/\ closer.pc \in {"idle", "closing"}
        /\ closer'.pc \notin {"idle", "closing"}
        /\ \A c \in Conns : pc'[c] # "accept")
          => /\ closer'.pc = "done"
             /\ websockets' = <<>>
             /\ publisher_task' = "None"
             /\ \A c \in closer'.all : closed'[c]]_vars

\* C9: once every connection that entered connect has gone through its
\* teardown, the registry is empty and the publisher task is stopped.
C9_AllGoneRoomEmpty ==
    ((\E c \in Conns : pc[c] # "init") /\ (\A c \in Conns : pc[c] \in TornDown \cup {"init"}))
        => (websockets = <<>> /\ publisher_task = "None")

\* C10: a message pushed while the registry was empty is never sent to a
\* connection that joined after the push.
C10_NoStaleDelivery ==
    (pub.pc = "send" /\ pub.msg.orphan) => pub.ws \in pub.msg.joined

\* the payloads queued in q, in queue order
Ids(q) == [i \in 1..Len(q) |-> q[i].id]

\* C11: stopping the publisher when the last member leaves does not change
\* the outbox, and a message kept in the outbox over the stop is broadcast
\* after the next start of the publisher: when it is dequeued a send of it
\* to a member starts.
C11_StopKeepsOutbox ==
    [][/\ (publisher_task = "Task" /\ publisher_task' = "None") => to_push' = to_push
       /\ \A i \in 1..Len(to_push) :
             (to_push[i].kept /\ to_push[i].id \notin Range(Ids(to_push')))
                 => (pub'.pc = "send" /\ pub'.msg.id = to_push[i].id)]_vars

\* a step of the publisher in which its send in flight fails with
\* WebSocketDisconnect: the target of the send is dropped
SendFails ==
    /\ pub.pc = "send"
    /\ pub.ws \notin removed
    /\ pub.ws \in removed'

\* a step of the publisher in which a send it calls raises another exception
SendRaises == pub.pc \in {"get", "send"} /\ pub'.pc = "dead"

\* C12: a send failure to one member does not abort the broadcast pass: the
\* publisher keeps running, the members still in the registry are sent the
\* message next, the failed member is absent from the registry when the
\* pass is over and the publisher goes on to the next queued message.
C12_SendFailureIsolated ==
    [][/\ (SendFails \/ SendRaises) => pub'.pc \in {"send", "get"}
       /\ SendFails =>
             pub.ws \notin (Range(websockets') \cup Range(pub'.living) \cup {pub'.ws})
       /\ (SendFails /\ websockets # <<>>) =>
             (pub'.pc = "send" /\ pub'.msg = pub.msg /\ pub'.ws = Last(websockets))
       /\ (SendFails /\ websockets = <<>> /\ pub.living # <<>> /\ to_push # <<>>) =>
             (pub'.pc = "send" /\ pub'.msg.id = Head(to_push).id)]_vars

\* C18: a connection that joins the registry after a broadcast pass has
\* started for a message is not sent the message in that pass: a send of the
\* message is only started to connections that had joined the registry by
\* the moment the message was dequeued.
C18_PassSendsToSnapshot ==
    pub.pc = "send" => pub.ws \in pub.msg.targets

\* C19: when the publisher is cancelled because the registry became empty
\* while one of its sends was in flight, no connected member is lost: every
\* connection that was accepted, that remove was not called for and that the
\* publisher did not drop for a failed send, is in the registry after the
\* cancellation.
C19_CancelLosesNoMember ==
    [][(publisher_task = "Task" /\ publisher_task' = "None" /\ pub.pc = "send")
          => \A c \in accepted :
                (pc'[c] = "receive" /\ ~closed'[c] /\ c \notin removed')
                    => In(c, websockets')]_vars

\* the lifecycle hook calls of c for event ev and phase
HookCount(c, ev, phase) ==
    Cardinality({i \in 1..Len(hooks[c]) : hooks[c][i].ev = ev /\ hooks[c][i].phase = phase})

\* C20: teardown runs exactly once per connection, whether it ends by a peer
\* disconnect, by close or by both: the Before-disconnect and the
\* After-disconnect hook are called at most once, no call of connect and no
\* call of close ends with an error of the teardown, and a connection whose
\* connect has returned had each hook called once and is out of the registry.
C20_TeardownOnce ==
    /\ closer.pc \notin {"ValueError", "AttributeError"}
    /\ \A c \in Conns :
          /\ HookCount(c, "disconnect", "before") <= 1
          /\ HookCount(c, "disconnect", "after") <= 1
          /\ pc[c] \notin {"ValueError", "AttributeError"}
          /\ pc[c] = "done" =>
                /\ HookCount(c, "disconnect", "before") = 1
                /\ HookCount(c, "disconnect", "after") = 1
                /\ ~In(c, websockets)

\* C13: for one connection the inbound frames are handled in arrival order
\* and the handler calls do not overlap: no frame is received and no handler
\* is called while the loop awaits the result of a handler, and every handler
\* call is made for the frame just received, a later one than the frame of
\* the call before.
C13_HandlersInOrder ==
    [][\A c \in Clients :
          /\ rx[c].running => (rx'[c].n = rx[c].n /\ rx'[c].call = rx[c].call)
          /\ rx'[c].call # rx[c].call =>
                /\ rx'[c].n = rx[c].n + 1
                /\ rx'[c].call.seq = rx'[c].n
                /\ rx'[c].call.seq > rx[c].call.seq
                /\ rx'[c].call.k = rx[c].call.k + 1]_vars

\* the second handler call of a connection is in progress: the loop awaits
\* the result of an asynchronous handler called for its second frame
C13_Witness ==
    \E c \in Clients : rx[c].call.k = 2 /\ rx[c].call.seq = 2 /\ rx[c].running

\* C14: for every received Text or Bytes frame that resolves to the text or
\* the bytes handler, the handler is called once, for that frame, with the
\* payload of the frame as it was received, whatever the payload is, the
\* empty string and empty bytes included.
C14_HandlerCalledWithPayload ==
    [][\A c \in Clients :
          (rx'[c].n # rx[c].n /\ Resolve(rx'[c].frame, on_receive).func \in {"text", "bytes"})
              => rx'[c].call = [k |-> rx[c].call.k + 1,
                                seq |-> rx'[c].n,
                                func |-> Resolve(rx'[c].frame, on_receive).func,
                                arg |-> Raw(rx'[c].frame)]]_vars

\* C15: when a frame resolves to the Json handler and its payload is not
\* valid JSON, the frame is dropped and nothing else changes: no handler is
\* called, the connection stays open and in the registry, its loop is back
\* at receive and no error leaves connect.
C15_InvalidJsonDropped ==
    [][\A c \in Clients :
          (/\ rx'[c].n # rx[c].n
           /\ Resolve(rx'[c].frame, on_receive).func = "json"
           /\ Resolve(rx'[c].frame, on_receive).raised)
              => /\ pc'[c] = "receive"
                 /\ ~rx'[c].running
                 /\ rx'[c].call = rx[c].call
                 /\ In(c, websockets')
                 /\ UNCHANGED <<websockets, publisher_task, pub, closed, application_state>>]_vars

\* C16: when a receive handler raises, the teardown of the connection runs
\* before connect is left: the connection is out of the registry, and the
\* publisher is stopped if the registry is empty.
C16_HandlerErrorTearsDown ==
    \A c \in Clients :
        pc[c] = "HandlerError"
            => (~In(c, websockets) /\ (websockets = <<>> => publisher_task = "None"))

\* C17: a lifecycle hook that raises does not skip the registry mutation of
\* its operation: when connect is left by the error of the Before-connect or
\* After-connect hook the connection is accepted and in the registry, and
\* when it is left by the error of a disconnect hook the connection is out
\* of the registry.
C17_HookErrorKeepsMutation ==
    [][\A c \in Clients :
          (pc'[c] = "HookError" /\ pc[c] # "HookError")
              => IF pc[c] \in {"init", "accept"}
                 THEN c \in accepted' /\ In(c, websockets')
                 ELSE ~In(c, websockets')]_vars

\* C21: removing a connection that is not in the registry is a no-op: when
\* the dispatch loop of a connection, or close, calls remove for a connection
\* that is not in the registry, the call returns without an error and the
\* registry and the publisher handle are left as they were.
C21_RemoveAbsentIsNoOp ==
    [][/\ \A c \in Conns :
             (pc[c] = "receive" /\ pc'[c] \in TornDown /\ ~In(c, websockets))
                 => /\ pc'[c] = "done"
                    /\ websockets' = websockets
                    /\ publisher_task' = publisher_task
       /\ (closer.pc = "closing" /\ closer' # closer /\ ~In(Head(closer.snap), websockets))
             => /\ closer'.pc \in {"closing", "done"}
                /\ websockets' = websockets
                /\ publisher_task' = publisher_task]_vars

\* C22: handler resolution for a Bytes frame with a non-empty payload, for
\* every set of registered handlers: with a Bytes handler, that handler is
\* called with the raw payload; with no Bytes handler and a Json handler, a
\* payload that is UTF-8 and JSON of a non-empty value is decoded and the
\* Json handler is called with the decoded value; with neither handler the
\* frame is dropped and the loop goes on.
C22_BytesFrameResolution ==
    [][\A c \in Clients :
          (rx'[c].n # rx[c].n /\ rx'[c].frame.kind = "bytes" /\ rx'[c].frame.data # "")
              => LET d == Utf8Decode(rx'[c].frame.data)
                     j == JsonLoads(d.text)
                 IN  IF "bytes" \in on_receive
                     THEN rx'[c].call = [k |-> rx[c].call.k + 1, seq |-> rx'[c].n,
                                         func |-> "bytes", arg |-> Raw(rx'[c].frame)]
                     ELSE IF "json" \in on_receive
                     THEN (d.ok /\ j.ok /\ Truthy(j.value))
                              => rx'[c].call = [k |-> rx[c].call.k + 1, seq |-> rx'[c].n,
                                                func |-> "json", arg |-> j.value]
                     ELSE rx'[c].call = rx[c].call /\ pc'[c] = "receive"]_vars

\* C23: once remove has been invoked for a connection, by its dispatch loop
\* after a peer disconnect or by close, no later broadcast pass sends to it:
\* a pass that starts, with the dequeue of its message, does not call its
\* first send on a connection whose connect call went through remove or
\* that close has called remove for.
C23_NoSendAfterRemove ==
    [][(pub'.pc \in {"send", "dead"} /\ pub'.msg.id # pub.msg.id)
          => (pc[pub'.ws] \notin TornDown /\ ~closed[pub'.ws])]_vars

====
